---- MODULE Spec2Model ----
(***************************************************************************)
(* Model of chirp/wxui/query_sources.py: the modal query dialogs           *)
(* (QuerySourceDialog and its four subclasses), the QueryThread worker     *)
(* that runs a source's do_fetch off the UI thread, the validators and the *)
(* RadioReference login / province / county selectors.                     *)
(*                                                                         *)
(* One behaviour is the life of one dialog instance.  UI-thread handlers   *)
(* are atomic actions (wx runs one handler at a time); every QueryThread   *)
(* and login thread advances in steps of its own that interleave freely    *)
(* with them.  wx.PostEvent is the FIFO `queue`.                           *)
(***************************************************************************)
EXTENDS Integers, Sequences, FiniteSets, TLC

(***************************************************************************)
(* Bounds of the model.                                                    *)
(***************************************************************************)
\* threads one dialog instance may start: QueryThreads (confirm presses that
\* pass) and RadioReferenceCAData login threads ("Log In" presses) together.
MaxThreads == 2
\* send_status / send_end / send_fail calls one do_fetch may make.
MaxEmits == 1
\* texts the user types and choices the user picks while the dialog is shown.
MaxInputs == 1
\* Dialogs opened one after another on the same CONF.
MaxDialogs == 3

(***************************************************************************)
(* Values.  Python's None is a value of its own, outside every text set.   *)
(***************************************************************************)
None == "<None>"

ID_OK == "ID_OK"
ID_CANCEL == "ID_CANCEL"
ID_ANY == "ID_ANY"

Variants == {"Repeaterbook", "MyGMRS", "DMR-MARC", "RadioReference"}

\* or(v, d): Python's `v or d` for an optional string.
OrEmpty(v) == IF v = None \/ v = "" THEN "" ELSE v

(***************************************************************************)
(* Texts a user may type, and their characters (TLC strings cannot be      *)
(* indexed, so the characters of the bounded input set are tabulated).     *)
(***************************************************************************)
Chars(s) ==
  CASE s = "" -> <<>>
    [] s = "45" -> <<"4", "5">>
    [] s = "95" -> <<"9", "5">>
    [] s = "-90" -> <<"-", "9", "0">>
    [] s = "200" -> <<"2", "0", "0">>
    [] s = "10" -> <<"1", "0">>
    [] s = "abc" -> <<"a", "b", "c">>
    [] s = "12345" -> <<"1", "2", "3", "4", "5">>
    [] s = "1234" -> <<"1", "2", "3", "4">>
    [] s = "1234a" -> <<"1", "2", "3", "4", "a">>
    [] s = "123456" -> <<"1", "2", "3", "4", "5", "6">>
    [] s = "1234<U+0663>" -> <<"1", "2", "3", "4", "U+0663">>
    [] s = "0" -> <<"0">>
    [] s = "-0.0001" -> <<"-", "0", ".", "0", "0", "0", "1">>
    [] s = "90" -> <<"9", "0">>
    [] s = "90.0001" -> <<"9", "0", ".", "0", "0", "0", "1">>
    [] s = "-90.0001" -> <<"-", "9", "0", ".", "0", "0", "0", "1">>
    [] s = "180" -> <<"1", "8", "0">>
    [] s = "-180" -> <<"-", "1", "8", "0">>
    [] s = "180.0001" -> <<"1", "8", "0", ".", "0", "0", "0", "1">>
    [] s = "-180.0001" -> <<"-", "1", "8", "0", ".", "0", "0", "0", "1">>
    [] s = "7000" -> <<"7", "0", "0", "0">>
    [] s = "7000.0001" -> <<"7", "0", "0", "0", ".", "0", "0", "0", "1">>
    [] s = "4.5.6" -> <<"4", ".", "5", ".", "6">>
    [] OTHER -> <<"?">>

Digits == {"0", "1", "2", "3", "4", "5", "6", "7", "8", "9"}

DigitVal(c) ==
  CASE c = "0" -> 0 [] c = "1" -> 1 [] c = "2" -> 2 [] c = "3" -> 3
    [] c = "4" -> 4 [] c = "5" -> 5 [] c = "6" -> 6 [] c = "7" -> 7
    [] c = "8" -> 8 [] c = "9" -> 9

\* Parsed numbers are fixed-point: FracDigits decimal places are represented.
FracDigits == 4
Scale == 10 ^ FracDigits

RECURSIVE DecVal(_)
DecVal(cs) ==
  IF cs = <<>> THEN 0
  ELSE 10 * DecVal(SubSeq(cs, 1, Len(cs) - 1)) + DigitVal(cs[Len(cs)])

RECURSIVE PadRight(_)
PadRight(cs) == IF Len(cs) >= FracDigits THEN cs ELSE PadRight(Append(cs, "0"))

\* float(strvalue) on [sign] digits [. digits]; anything else is ValueError.
\* The parse goes sign, then the position of the point, then the two runs of
\* digits around it.
AllDigits(cs) == \A i \in DOMAIN cs : cs[i] \in Digits

FloatOf(neg, ip, fp, ndots) ==
  IF ndots <= 1 /\ Len(ip) + Len(fp) >= 1 /\ Len(fp) <= FracDigits
     /\ AllDigits(ip) /\ AllDigits(fp)
  THEN [ok |-> TRUE, v |-> (IF neg THEN -1 ELSE 1)
                           * (DecVal(ip) * Scale + DecVal(PadRight(fp)))]
  ELSE [ok |-> FALSE, v |-> 0]

FloatAt(neg, body, dots) ==
  FloatOf(neg,
          SubSeq(body, 1, (IF dots = {} THEN Len(body) + 1 ELSE CHOOSE i \in dots : TRUE) - 1),
          SubSeq(body, (IF dots = {} THEN Len(body) + 1 ELSE CHOOSE i \in dots : TRUE) + 1,
                 Len(body)),
          Cardinality(dots))

FloatUnsigned(neg, body) == FloatAt(neg, body, {i \in DOMAIN body : body[i] = "."})

FloatChars(cs) ==
  FloatUnsigned(cs # <<>> /\ cs[1] = "-",
                IF cs # <<>> /\ cs[1] \in {"-", "+"} THEN Tail(cs) ELSE cs)

ParseFloat(s) == FloatChars(Chars(s))

(***************************************************************************)
(* Validators.  The result says what Validate returned and what it did to  *)
(* the text control: "skip" = True without touching the control, "ok" =    *)
(* True with the background reset, "bad" = False with focus and pink.      *)
(***************************************************************************)
\* Validate with the bounds exclusive.
NumberValidate_exclusive(strvalue, MIN, MAX, OPTIONAL) ==
  IF strvalue = "" /\ OPTIONAL THEN "skip"
  ELSE IF ParseFloat(strvalue).ok /\ ParseFloat(strvalue).v > MIN * Scale
          /\ ParseFloat(strvalue).v < MAX * Scale THEN "ok" ELSE "bad"

NumberValidate(strvalue, MIN, MAX, OPTIONAL) ==
  IF strvalue = "" /\ OPTIONAL THEN "skip"
  ELSE LET p == ParseFloat(strvalue)
       IN IF p.ok /\ p.v >= MIN * Scale /\ p.v <= MAX * Scale THEN "ok" ELSE "bad"

LatValidator(strvalue) == NumberValidate(strvalue, -90, 90, TRUE)
LonValidator(strvalue) == NumberValidate(strvalue, -180, 180, TRUE)
DistValidator(strvalue) == NumberValidate(strvalue, 0, 7000, TRUE)

\* str.isdigit(): every character has the Unicode property Numeric_Type Digit
\* or Decimal, and there is at least one.  Besides '0'..'9' that is, among
\* others, ARABIC-INDIC DIGIT THREE and SUPERSCRIPT TWO, written here by their
\* code points.
UnicodeDigits == {"U+0663", "U+00B2"}

IsDigitStr(cs) == cs # <<>> /\ \A i \in DOMAIN cs : cs[i] \in Digits \cup UnicodeDigits

\* ZipValidator.Validate: no colour, no focus, only the message box.
ZipValidator(strvalue) ==
  IF Len(Chars(strvalue)) = 5 /\ IsDigitStr(Chars(strvalue)) THEN "skip" ELSE "fail"

(***************************************************************************)
(* Collaborators of the module that live in other files of the package:    *)
(* the lookup tables of chirp.sources.repeaterbook, chirp.wxui.fips and    *)
(* chirp.sources.radioreference, here as small tables of the same shape.   *)
(***************************************************************************)
COUNTRIES == <<"United States", "Canada">>

STATES(country) ==
  CASE country = "United States" -> <<"Oregon", "Texas">>
    [] country = "Canada" -> <<"Alberta">>

\* fips.FIPS_STATES: state name -> FIPS code; other keys raise KeyError.
FIPS_NAMES == <<"Oregon", "Texas">>

FIPS_STATES(name) == CASE name = "Oregon" -> 41 [] name = "Texas" -> 48

\* fips.state_name_to_abbrev
state_name_to_abbrev(name) == CASE name = "Oregon" -> "OR" [] name = "Texas" -> "TX"

\* radioreference.CA_PROVINCES / CA_COUNTIES as the login thread fills them:
\* a dict name -> id in insertion order, and rows (provid, prov, cid, county).
CAProvinceTable == << [name |-> "AB", id |-> 1], [name |-> "BC", id |-> 2] >>

CACountyTable ==
  << [provid |-> 1, prov |-> "AB", cid |-> 11, county |-> "Calgary"],
     [provid |-> 2, prov |-> "BC", cid |-> 21, county |-> "Victoria"],
     [provid |-> 2, prov |-> "BC", cid |-> 22, county |-> "Nanaimo"] >>

\* What a login may fetch: the table above; nothing at all; a province without
\* counties; two provinces with a county of the same name.
CATables ==
  { [provinces |-> CAProvinceTable, counties |-> CACountyTable],
    [provinces |-> <<>>, counties |-> <<>>],
    [provinces |-> CAProvinceTable,
     counties |-> << [provid |-> 1, prov |-> "AB", cid |-> 11, county |-> "Calgary"] >>],
    [provinces |-> CAProvinceTable,
     counties |-> << [provid |-> 1, prov |-> "AB", cid |-> 11, county |-> "Lakeland"],
                     [provid |-> 2, prov |-> "BC", cid |-> 21, county |-> "Lakeland"],
                     [provid |-> 2, prov |-> "BC", cid |-> 22, county |-> "Nanaimo"] >>] }

(***************************************************************************)
(* str() of a non-negative int.                                            *)
(***************************************************************************)
DigitChar(d) ==
  CASE d = 0 -> "0" [] d = 1 -> "1" [] d = 2 -> "2" [] d = 3 -> "3"
    [] d = 4 -> "4" [] d = 5 -> "5" [] d = 6 -> "6" [] d = 7 -> "7"
    [] d = 8 -> "8" [] d = 9 -> "9"

RECURSIVE Str(_)
Str(n) == IF n < 10 THEN DigitChar(n) ELSE Str(n \div 10) \o DigitChar(n % 10)

(***************************************************************************)
(* State.                                                                  *)
(***************************************************************************)
VARIABLES
  variant,       \* NAME of the dialog class of this instance
  text,          \* GetValue() of every wx.TextCtrl
  bg,            \* text controls whose background colour is 'pink'
  focus,         \* the control SetFocus was last called on / last edited
  validated,     \* what each control's validator returned since its text last changed
  choice,        \* items and string selection of every wx.Choice
  tab,           \* self.tabs.GetSelection() of the RadioReference notebook
  CONF,          \* the persisted configuration, (section, key) -> value
  enabled,       \* IsEnabled() of the OK button and of _loginbutton
  gauge,         \* self.gauge value
  statusmsg,     \* self.statusmsg label
  modal,         \* the dialog is inside ShowModal
  returnCode,    \* GetReturnCode(), set by every EndModal
  modalResult,   \* what ShowModal returned: the code that ended the modal loop
  result_radio,  \* self.result_radio
  result_file,   \* self.result_file
  threads,       \* the QueryThreads of this dialog
  queue,         \* QueryThreadEvents posted with wx.PostEvent, not yet handled
  logins,        \* RadioReferenceCAData threads: started, running, succeeded
  callAfter,     \* pending wx.CallAfter(self.populateprov) calls
  CA_PROVINCES,  \* radioreference.CA_PROVINCES
  CA_COUNTIES,   \* radioreference.CA_COUNTIES
  rr,            \* default_prov, default_county, _ca_county_id of RRQueryDialog
  inputs,        \* how many times the user has typed or picked something
  session        \* dialogs opened so far on this CONF, and the state each kind last submitted

vars == << variant, text, bg, focus, validated, choice, tab, CONF, enabled, gauge, statusmsg,
           modal, returnCode, modalResult, result_radio, result_file, threads,
           queue, logins, callAfter, CA_PROVINCES, CA_COUNTIES, rr, inputs,
           session >>

(***************************************************************************)
(* The window tree, children in creation order (build() runs first, then   *)
(* statusmsg, gauge, link, info and the button sizer's OK and Cancel).     *)
(* The static labels carry neither a validator nor a fixed id and are left *)
(* out.                                                                    *)
(***************************************************************************)
TextCtrls == {"_lat", "_lon", "_dist", "_username", "_password", "_city",
              "_state", "_country", "_rrusername", "_rrpassword", "_uszip"}

Choices == {"_country", "_state", "_provchoice", "_countychoice"}

Common == <<"statusmsg", "gauge", "link", "info", "OK", "CANCEL">>

PanelChildren(v) ==
  CASE v = "Repeaterbook" -> <<"_country", "_state", "_lat", "_lon", "_dist">>
    [] v = "MyGMRS" -> <<"_username", "_password", "_state", "_lat", "_lon">>
    [] v = "DMR-MARC" -> <<"_city", "_state", "_country">>
    [] v = "RadioReference" -> <<"_rrusername", "_rrpassword">>

GetChildren(v, w) ==
  CASE w = "dialog" -> IF v = "RadioReference" THEN <<"tabs", "panel">> \o Common
                       ELSE <<"panel">> \o Common
    [] w = "panel" -> PanelChildren(v)
    [] w = "tabs" -> <<"us_panel", "ca_panel">>
    [] w = "us_panel" -> <<"_uszip">>
    [] w = "ca_panel" -> <<"_loginbutton", "_provchoice", "_countychoice">>
    [] OTHER -> <<>>

GetId(w) ==
  CASE w = "OK" -> ID_OK
    [] w = "CANCEL" -> ID_CANCEL
    [] w = "_loginbutton" -> ID_OK
    [] OTHER -> ID_ANY

\* Text controls of the variant (what the user can type into).
TextCtrlsOf(v) ==
  CASE v = "Repeaterbook" -> {"_lat", "_lon", "_dist"}
    [] v = "MyGMRS" -> {"_username", "_password", "_lat", "_lon"}
    [] v = "DMR-MARC" -> {"_city", "_state", "_country"}
    [] v = "RadioReference" -> {"_rrusername", "_rrpassword", "_uszip"}

\* The validator a text control was created with.
HasValidator(v, w) ==
  \/ w \in {"_lat", "_lon"} /\ v \in {"Repeaterbook", "MyGMRS"}
  \/ w = "_dist" /\ v = "Repeaterbook"
  \/ w = "_uszip" /\ v = "RadioReference"

Validator(w, strvalue) ==
  CASE w = "_lat" -> LatValidator(strvalue)
    [] w = "_lon" -> LonValidator(strvalue)
    [] w = "_dist" -> DistValidator(strvalue)
    [] w = "_uszip" -> ZipValidator(strvalue)

\* wx.Window.FindWindowById: the window itself, else depth-first through the
\* children in order, the first match winning.
RECURSIVE FindWindow(_, _, _)
RECURSIVE FindInChildren(_, _, _, _)
FindInChildren(v, w, i, id) ==
  IF i > Len(GetChildren(v, w)) THEN None
  ELSE LET res == FindWindow(v, GetChildren(v, w)[i], id)
       IN IF res # None THEN res ELSE FindInChildren(v, w, i + 1, id)

FindWindow(v, w, id) == IF GetId(w) = id THEN w ELSE FindInChildren(v, w, 1, id)

\* self.FindWindowById(wx.ID_OK), as a key of `enabled`.
FindWindowById(v, id) ==
  LET w == FindWindow(v, "dialog", id)
  IN IF w = "_loginbutton" THEN "login" ELSE "ok"

(***************************************************************************)
(* Validation at submit.  A validation state is what the walk has returned *)
(* and done so far: ok (the return value), bg and focus (the side effects  *)
(* of NumberValidator.Validate), ret (what each validator that ran          *)
(* returned: "passed" for True, "failed" for False).                       *)
(***************************************************************************)
RunValidator(v, w, st) ==
  IF ~HasValidator(v, w) THEN st
  ELSE LET r == Validator(w, text[w])
       IN CASE r = "skip" -> [st EXCEPT !.ret[w] = "passed"]
            [] r = "ok" -> [st EXCEPT !.bg = @ \ {w}, !.ret[w] = "passed"]
            [] r = "bad" -> [st EXCEPT !.ok = FALSE, !.bg = @ \cup {w}, !.focus = w,
                                       !.ret[w] = "failed"]
            [] r = "fail" -> [st EXCEPT !.ok = FALSE, !.ret[w] = "failed"]

\* wx.Window.Validate() of window w: the validators of w's direct children, in
\* order, stopping at the first that fails (no wxWS_EX_VALIDATE_RECURSIVELY).
RECURSIVE ValidateFrom(_, _, _, _)
ValidateFrom(v, w, i, st) ==
  IF i > Len(GetChildren(v, w)) THEN st
  ELSE LET s2 == RunValidator(v, GetChildren(v, w)[i], st)
       IN IF ~s2.ok THEN s2 ELSE ValidateFrom(v, w, i + 1, s2)

WindowValidate(v, w, st) == ValidateFrom(v, w, 1, [st EXCEPT !.ok = TRUE])

\* QuerySourceDialog._call_validations, with its call stack spelled out: a
\* frame is a call _call_validations(parent) standing at child number i.  A
\* child whose Validate() fails makes the frame return False; a frame whose loop
\* is over returns True.  Only the outermost frame's value reaches the caller:
\* the value of a nested call is dropped, as in the source, while what the
\* validators it ran did to the controls stays.
RECURSIVE CallValidationsFrom(_, _, _)
CallValidationsFrom(v, stack, st) ==
  LET top == stack[Len(stack)]
      callers == SubSeq(stack, 1, Len(stack) - 1)
      kids == GetChildren(v, top.parent)
      r == WindowValidate(v, kids[top.i], st)
  IN IF top.i > Len(kids)
     THEN IF callers = <<>> THEN [st EXCEPT !.ok = TRUE]
          ELSE CallValidationsFrom(v, callers, st)
     ELSE IF ~r.ok
     THEN IF callers = <<>> THEN r
          ELSE CallValidationsFrom(v, callers, r)
     ELSE CallValidationsFrom(v,
            callers \o << [top EXCEPT !.i = @ + 1], [parent |-> kids[top.i], i |-> 1] >>, r)

_call_validations(v, parent) ==
  CallValidationsFrom(v, << [parent |-> parent, i |-> 1] >>,
                      [ok |-> TRUE, bg |-> bg, focus |-> focus, ret |-> validated])

(***************************************************************************)
(* The configuration store.                                                *)
(***************************************************************************)
ConfKeys ==
  {<<"repeaterbook", k>> : k \in {"lat", "lon", "dist", "state", "country"}}
    \cup {<<"mygmrs", k>> : k \in {"username", "password"}}
    \cup {<<"dmrmarc", k>> : k \in {"city", "state", "country"}}
    \cup {<<"radioreference", k>> :
            k \in {"username", "password", "zipcode", "province", "county"}}

\* CONF.get(key, section)
ConfGet(conf, key, section) == conf[<<section, key>>]

\* CONF.set(key, value, section) for a sequence of (key, section, value)
RECURSIVE ConfSetAll(_, _)
ConfSetAll(conf, kvs) ==
  IF kvs = <<>> THEN conf
  ELSE ConfSetAll([conf EXCEPT ![<<kvs[1][2], kvs[1][1]>>] = kvs[1][3]], Tail(kvs))

InSeq(x, seq) == \E i \in DOMAIN seq : seq[i] = x

(***************************************************************************)
(* Choices.  SetItems drops the selection; SetStringSelection of a string  *)
(* that is no item leaves the selection alone.                             *)
(***************************************************************************)
NoChoice == [items |-> <<>>, sel |-> ""]

SetItems(items) == [items |-> items, sel |-> ""]

SetStringSelection(c, s) == IF InSeq(s, c.items) THEN [c EXCEPT !.sel = s] ELSE c

\* RepeaterBookQueryDialog._state_selected: the new _state choice.
\* (An unselected country is a KeyError; the dialog is built with one selected.)
_state_selected(ch, conf) ==
  LET country == ch["_country"].sel
      states == STATES(country)
      prev == ConfGet(conf, "state", "repeaterbook")
      st == SetItems(states)
  IN [ch EXCEPT !["_state"] =
        IF prev # None /\ prev # "" /\ InSeq(prev, states)
        THEN SetStringSelection(st, prev) ELSE st]

\* fips.fips_to_state raises KeyError for what is no FIPS code.
FipsToStateRaises(prev) == \A i \in DOMAIN FIPS_NAMES : Str(FIPS_STATES(FIPS_NAMES[i])) # prev

\* MyGMRSQueryDialog.build: the _state choice.
MyGMRSBuildState(conf) ==
  LET c == SetItems(FIPS_NAMES)
      prev == ConfGet(conf, "state", "repeaterbook")
  IN IF prev # None /\ prev # ""
     THEN IF FipsToStateRaises(prev)
          THEN (IF InSeq(prev, FIPS_NAMES) THEN SetStringSelection(c, prev) ELSE c)
          ELSE c
     ELSE c

(***************************************************************************)
(* Construction.                                                           *)
(***************************************************************************)
\* Texts the user may put in a control.
TextsOf(w) ==
  CASE w = "_lat" -> {"", "45", "95"}
    [] w = "_lon" -> {"", "200"}
    [] w = "_dist" -> {"", "10"}
    [] w = "_uszip" -> {"12345", "1234"}
    [] w = "_city" -> {"", "Salem"}
    [] OTHER -> {""}

\* Configurations a dialog may be opened with.
InitConfs(v) ==
  LET base == [k \in ConfKeys |-> None]
  IN CASE v = "Repeaterbook" ->
            {[base EXCEPT ![<<"repeaterbook", "country">>] = c,
                          ![<<"repeaterbook", "state">>] = s] :
               c \in {"United States", "Canada"}, s \in {None, "Oregon"}}
       [] v = "MyGMRS" ->
            {[base EXCEPT ![<<"repeaterbook", "state">>] = s] :
               s \in {None, "Oregon", "41"}}
       [] v = "DMR-MARC" -> {base}
       [] v = "RadioReference" ->
            {[base EXCEPT ![<<"radioreference", "zipcode">>] = z] :
               z \in {None, "12345"}}

\* build(): the initial value of every text control.
BuildText(v, conf) ==
  [w \in TextCtrls |->
     CASE v = "Repeaterbook" /\ w = "_lat" -> OrEmpty(ConfGet(conf, "lat", "repeaterbook"))
       [] v = "Repeaterbook" /\ w = "_lon" -> OrEmpty(ConfGet(conf, "lon", "repeaterbook"))
       [] v = "Repeaterbook" /\ w = "_dist" -> OrEmpty(ConfGet(conf, "dist", "repeaterbook"))
       [] v = "MyGMRS" /\ w = "_username" -> OrEmpty(ConfGet(conf, "username", "mygmrs"))
       [] v = "MyGMRS" /\ w = "_password" -> OrEmpty(ConfGet(conf, "password", "mygmrs"))
       [] v = "MyGMRS" /\ w = "_lat" -> OrEmpty(ConfGet(conf, "lat", "repeaterbook"))
       [] v = "MyGMRS" /\ w = "_lon" -> OrEmpty(ConfGet(conf, "lon", "repeaterbook"))
       [] v = "DMR-MARC" /\ w = "_city" -> OrEmpty(ConfGet(conf, "city", "dmrmarc"))
       [] v = "DMR-MARC" /\ w = "_state" -> OrEmpty(ConfGet(conf, "state", "dmrmarc"))
       [] v = "DMR-MARC" /\ w = "_country" -> OrEmpty(ConfGet(conf, "country", "dmrmarc"))
       [] v = "RadioReference" /\ w = "_rrusername" ->
            OrEmpty(ConfGet(conf, "username", "radioreference"))
       [] v = "RadioReference" /\ w = "_rrpassword" ->
            OrEmpty(ConfGet(conf, "password", "radioreference"))
       [] v = "RadioReference" /\ w = "_uszip" ->
            OrEmpty(ConfGet(conf, "zipcode", "radioreference"))
       [] OTHER -> ""]

\* build(): the initial choices.
BuildChoice(v, conf) ==
  LET none == [c \in Choices |-> NoChoice]
  IN CASE v = "Repeaterbook" ->
            LET prev == ConfGet(conf, "country", "repeaterbook")
                c0 == SetItems(COUNTRIES)
                c1 == IF prev # None /\ prev # "" /\ InSeq(prev, COUNTRIES)
                      THEN SetStringSelection(c0, prev) ELSE c0
            IN _state_selected([none EXCEPT !["_country"] = c1], conf)
       [] v = "MyGMRS" -> [none EXCEPT !["_state"] = MyGMRSBuildState(conf)]
       [] v = "DMR-MARC" -> none
       [] v = "RadioReference" ->
            [none EXCEPT !["_provchoice"] = SetItems(<<"Log in First">>),
                         !["_countychoice"] = SetItems(<<"Log in First">>)]

\* tempfile.NamedTemporaryFile(prefix='%s-' % NAME, suffix='.csv').name
TempName(v) == "/tmp/" \o v \o "-" \o "a1b2c3" \o ".csv"

NoThread == [pc |-> "unstarted", params |-> [unset |-> TRUE],
             atSubmit |-> [unset |-> TRUE], raised |-> FALSE, nsent |-> 0,
             nterm |-> 0, nend |-> 0]

\* Attributes of RRQueryDialog that exist only once a handler has set them:
\* has_county_id says whether _ca_county_id does.  raised is kept beside them:
\* whether the selector handler that ran last was left by an exception.
NoRR == [default_prov |-> None, default_county |-> None, county_is_int |-> FALSE,
         has_county_id |-> FALSE, _ca_county_id |-> 0, raised |-> FALSE]

\* The first dialog on this CONF, nothing submitted yet.
NoSession == [opened |-> 1, submitted |-> [v \in Variants |-> None]]

\* A submit has persisted the fields of the dialog: the state it had selected
\* is remembered for its kind of dialog, and a submit with no state selected
\* leaves nothing to restore.
Submitted(ses, v, ch) ==
  IF v \in {"Repeaterbook", "MyGMRS"}
  THEN [ses EXCEPT !.submitted[v] =
          IF ch["_state"].sel # "" THEN ch["_state"].sel ELSE None]
  ELSE ses

Init ==
  /\ variant \in Variants
  /\ CONF \in InitConfs(variant)
  /\ text = BuildText(variant, CONF)
  /\ choice = BuildChoice(variant, CONF)
  /\ bg = {}
  /\ validated = [w \in TextCtrls |-> "none"]
  /\ focus = None
  /\ tab = 0
  /\ enabled = [b \in {"ok", "login"} |-> TRUE]
  /\ gauge = 0
  /\ statusmsg = ""
  /\ modal = TRUE
  /\ returnCode = None
  /\ modalResult = None
  /\ result_radio = IF variant = "RadioReference" THEN "RadioReferenceRadio" ELSE None
  /\ result_file = TempName(variant)
  /\ threads = [t \in 1..MaxThreads |-> NoThread]
  /\ queue = <<>>
  /\ logins = [started |-> 0, running |-> 0, succeeded |-> 0]
  /\ callAfter = 0
  /\ CA_PROVINCES = <<>>
  /\ CA_COUNTIES = <<>>
  /\ rr = NoRR
  /\ inputs = 0
  /\ session = NoSession

(***************************************************************************)
(* The RadioReference Canada selectors.  A selector state S is the part of *)
(* the dialog these handlers touch: [choice, CONF, rr, enabled, raised],   *)
(* raised = the handler was left by an exception at that point.            *)
(***************************************************************************)
FirstMatch(seq, P(_)) ==
  LET hits == {i \in DOMAIN seq : P(seq[i])}
  IN IF hits = {} THEN 0 ELSE CHOOSE i \in hits : \A j \in hits : i <= j

\* The county rows appended without the test on the province.
RECURSIVE SelectSeq2_unfiltered(_, _)
SelectSeq2_unfiltered(seq, prov) ==
  IF seq = <<>> THEN <<>> ELSE <<seq[1].county>> \o SelectSeq2_unfiltered(Tail(seq), prov)

RECURSIVE SelectSeq2(_, _)
SelectSeq2(seq, prov) ==
  IF seq = <<>> THEN <<>>
  ELSE IF seq[1].prov = prov THEN <<seq[1].county>> \o SelectSeq2(Tail(seq), prov)
       ELSE SelectSeq2(Tail(seq), prov)

\* RRQueryDialog._selected_county
_selected_county(S, chosencounty) ==
  LET IsIt(row) == row.county = chosencounty
      i == FirstMatch(CA_COUNTIES, IsIt)
      cid == IF i = 0 THEN 0 ELSE CA_COUNTIES[i].cid
  IN [S EXCEPT !.rr._ca_county_id = cid,
               !.rr.has_county_id = TRUE,
               !.CONF[<<"radioreference", "county">>] = Str(cid)]

\* RRQueryDialog._selected_province
_selected_province(S, chosenprov) ==
  LET IsIt(p) == p.name = chosenprov
      i == FirstMatch(CA_PROVINCES, IsIt)
      S1 == IF i = 0 THEN S
            ELSE [S EXCEPT !.CONF[<<"radioreference", "province">>] =
                                Str(CA_PROVINCES[i].id)]
      items == SelectSeq2(CA_COUNTIES, chosenprov)
      S2 == [S1 EXCEPT !.choice["_countychoice"] = SetItems(items)]
  IN IF items = <<>> THEN [S2 EXCEPT !.raised = TRUE]   \* GetItems()[0]: IndexError
     ELSE _selected_county(S2, items[1])

\* RRQueryDialog.getconfdefaults: the for/else-less loops leave the attribute
\* unset on an empty table, and the fallback once any row was passed over.
getconfdefaults(S) ==
  LET pcode == ConfGet(S.CONF, "province", "radioreference")
      IsP(p) == pcode = Str(p.id)
      pi == FirstMatch(CA_PROVINCES, IsP)
      ccode == ConfGet(S.CONF, "county", "radioreference")
      IsC(row) == ccode = Str(row.cid)
      ci == FirstMatch(CA_COUNTIES, IsC)
  IN [S EXCEPT
        !.rr.default_prov = IF pi # 0 THEN CA_PROVINCES[pi].name
                            ELSE IF CA_PROVINCES # <<>> THEN "BC" ELSE @,
        !.rr.default_county = IF ci # 0 THEN CA_COUNTIES[ci].county
                              ELSE IF CA_COUNTIES # <<>> THEN "0" ELSE @,
        !.rr.county_is_int = IF ci # 0 THEN FALSE
                             ELSE IF CA_COUNTIES # <<>> THEN TRUE ELSE @]

\* RRQueryDialog.populateprov
populateprov(S) ==
  LET S1 == [S EXCEPT !.choice["_provchoice"] =
                         SetItems([i \in DOMAIN CA_PROVINCES |-> CA_PROVINCES[i].name])]
      S2 == getconfdefaults(S1)
  IN IF S2.rr.default_prov = None THEN [S2 EXCEPT !.raised = TRUE]   \* AttributeError
     ELSE
       LET S3 == [S2 EXCEPT !.choice["_provchoice"] =
                              SetStringSelection(@, S2.rr.default_prov)]
           S4 == _selected_province(S3, S2.rr.default_prov)
       IN IF S4.raised THEN S4
          ELSE IF S4.rr.default_county = None \/ S4.rr.county_is_int
               THEN [S4 EXCEPT !.raised = TRUE]    \* AttributeError / TypeError
          ELSE
            LET S5 == [S4 EXCEPT !.choice["_countychoice"] =
                                   SetStringSelection(@, S4.rr.default_county)]
                S6 == _selected_county(S5, S4.rr.default_county)
            IN [S6 EXCEPT !.enabled["login"] = FALSE]

Selectors == [choice |-> choice, CONF |-> CONF, rr |-> rr, enabled |-> enabled,
              raised |-> FALSE]

SetSelectors(S) ==
  /\ choice' = S.choice
  /\ CONF' = S.CONF
  /\ rr' = [S.rr EXCEPT !.raised = S.raised]
  /\ enabled' = S.enabled

(***************************************************************************)
(* get_params() of each dialog class, on the current state of the widgets  *)
(* and of CONF: [raised, msg, params].                                     *)
(***************************************************************************)
Returned(params) == [raised |-> FALSE, msg |-> "", params |-> params]

Raised(msg) == [raised |-> TRUE, msg |-> msg, params |-> [unset |-> TRUE]]

get_params(v, txt, ch, conf, tb, r) ==
  CASE v = "Repeaterbook" ->
         Returned([country |-> ch["_country"].sel, state |-> ch["_state"].sel,
                   lat |-> txt["_lat"], lon |-> txt["_lon"], dist |-> txt["_dist"]])
    [] v = "MyGMRS" ->
         IF ~InSeq(ch["_state"].sel, FIPS_NAMES) THEN Raised("KeyError")
         ELSE Returned([state |-> state_name_to_abbrev(ch["_state"].sel),
                        lat |-> txt["_lat"], lon |-> txt["_lon"],
                        username |-> txt["_username"], password |-> txt["_password"]])
    [] v = "DMR-MARC" ->
         Returned([city |-> ConfGet(conf, "city", "dmrmarc"),
                   state |-> ConfGet(conf, "state", "dmrmarc"),
                   country |-> ConfGet(conf, "country", "dmrmarc")])
    [] v = "RadioReference" ->
         IF tb = 0 THEN Returned([zipcounty |-> txt["_uszip"], country |-> "US"])
         ELSE IF ~r.has_county_id THEN Raised("'RRQueryDialog' object has no attribute '_ca_county_id'")
         ELSE Returned([zipcounty |-> Str(r._ca_county_id), country |-> "CA"])

GetParamsNow == get_params(variant, text, choice, CONF, tab, rr)

(***************************************************************************)
(* do_query() of each dialog class up to super().do_query():               *)
(* [raised, CONF, result_radio].                                           *)
(***************************************************************************)
do_query(v) ==
  CASE v = "Repeaterbook" ->
         [raised |-> FALSE, result_radio |-> "RepeaterBook",
          CONF |-> ConfSetAll(CONF,
             << <<"lat", "repeaterbook", text["_lat"]>>,
                <<"lon", "repeaterbook", text["_lon"]>>,
                <<"dist", "repeaterbook", text["_dist"]>>,
                <<"state", "repeaterbook", choice["_state"].sel>>,
                <<"country", "repeaterbook", choice["_country"].sel>> >>)]
    [] v = "MyGMRS" ->
         IF ~InSeq(choice["_state"].sel, FIPS_NAMES)
         THEN [raised |-> TRUE, result_radio |-> result_radio, CONF |-> CONF]
         ELSE [raised |-> FALSE, result_radio |-> "MyGMRS",
               CONF |-> ConfSetAll(CONF,
                 << <<"state", "repeaterbook", Str(FIPS_STATES(choice["_state"].sel))>>,
                    <<"lat", "repeaterbook", text["_lat"]>>,
                    <<"lon", "repeaterbook", text["_lon"]>>,
                    <<"username", "mygmrs", text["_username"]>>,
                    <<"password", "mygmrs", text["_password"]>> >>)]
    [] v = "DMR-MARC" ->
         [raised |-> FALSE, result_radio |-> "DMRMARCRadio",
          CONF |-> ConfSetAll(CONF,
             << <<"city", "dmrmarc", text["_city"]>>,
                <<"state", "dmrmarc", text["_state"]>>,
                <<"country", "dmrmarc", text["_country"]>> >>)]
    [] v = "RadioReference" ->
         [raised |-> tab = 1 /\ CA_PROVINCES = <<>>, result_radio |-> result_radio,
          CONF |-> ConfSetAll(CONF,
             << <<"username", "radioreference", text["_rrusername"]>>,
                <<"password", "radioreference", text["_rrpassword"]>>,
                <<"zipcode", "radioreference", text["_uszip"]>> >>)]

(***************************************************************************)
(* Events and the modal loop.                                              *)
(***************************************************************************)
\* QuerySourceDialog.status: the QueryThreadEvent posted.  Two marks that the
\* program does not keep ride along: src, the number of the QueryThread that
\* called it (0 for the login callback), and orphan, whether the dialog had
\* already left its modal loop when the event was posted.
status(st, percent, src) ==
  [status |-> st, percent |-> percent, src |-> src, orphan |-> ~modal]

\* QuerySourceDialog.end
end(src) == status(None, 100, src)

\* QuerySourceDialog.fail
fail(reason, src) == status(reason, 100, src)

\* wx.Dialog.EndModal: the return code is set in any case; the modal loop, if
\* one is running, ends with that code.
EndModal(d, id) ==
  [d EXCEPT !.returnCode = id,
            !.modal = FALSE,
            !.modalResult = IF d.modal THEN id ELSE @]

\* _got_status ending the dialog on percent 100 instead of status None.
_got_status_ends_on_100(d, event, asserts) ==
  LET d1 == [d EXCEPT !.gauge = event.percent]
      d2 == IF event.percent = 100 THEN EndModal(d1, ID_OK)
            ELSE IF event.status = None THEN d1
            ELSE [d1 EXCEPT !.statusmsg = event.status]
  IN IF event.percent = 100
     THEN [d2 EXCEPT !.enabled[FindWindowById(variant, ID_OK)] = TRUE]
     ELSE d2

\* _got_status without the Enable() of the OK button on percent 100.
_got_status_no_enable(d, event, asserts) ==
  LET d1 == [d EXCEPT !.gauge = event.percent]
  IN IF event.status = None THEN EndModal(d1, ID_OK)
     ELSE [d1 EXCEPT !.statusmsg = event.status]

\* QuerySourceDialog._got_status on the dialog state d.  `asserts` says whether
\* EndModal on a dialog that is not modal leaves the handler with wx's
\* assertion error (it does where wx asserts are on).
_got_status(d, event, asserts) ==
  LET d1 == [d EXCEPT !.gauge = event.percent]
      d2 == IF event.status = None THEN EndModal(d1, ID_OK)
            ELSE [d1 EXCEPT !.statusmsg = event.status]
      left == event.status = None /\ ~d.modal /\ asserts
  IN IF event.percent = 100 /\ ~left
     THEN [d2 EXCEPT !.enabled[FindWindowById(variant, ID_OK)] = TRUE]
     ELSE d2

Dialog == [gauge |-> gauge, statusmsg |-> statusmsg, enabled |-> enabled,
           modal |-> modal, returnCode |-> returnCode, modalResult |-> modalResult]

SetDialog(d) ==
  /\ gauge' = d.gauge
  /\ statusmsg' = d.statusmsg
  /\ enabled' = d.enabled
  /\ modal' = d.modal
  /\ returnCode' = d.returnCode
  /\ modalResult' = d.modalResult

(***************************************************************************)
(* What a source's do_fetch and the login thread may report.               *)
(***************************************************************************)
ProgressTexts == {"Fetching"}
ProgressPercents == {40}
FailReasons == {"Unable to query"}
ExceptionTexts == {"timed out"}
LoginErrors == {"Invalid credentials"}

(***************************************************************************)
(* Actions of the UI thread.  The user acts on the dialog only while it is *)
(* shown modally; events and CallAfter calls are delivered as long as the  *)
(* dialog object lives.                                                    *)
(***************************************************************************)
widgets == << text, bg, focus, validated, choice, tab >>
dialog == << gauge, statusmsg, modal, returnCode, modalResult >>
radio == << CA_PROVINCES, CA_COUNTIES >>

\* The user types in a text control: EVT_TEXT runs NumberValidator._colorchange
\* on the controls that carry a NumberValidator.
Edit(w, t) ==
  /\ modal
  /\ inputs < MaxInputs
  /\ inputs' = inputs + 1
  /\ w \in TextCtrlsOf(variant)
  /\ w = "_uszip" => tab = 0
  /\ t # text[w]
  /\ text' = [text EXCEPT ![w] = t]
  /\ bg' = IF HasValidator(variant, w) /\ w # "_uszip" THEN bg \ {w} ELSE bg
  /\ focus' = w
  /\ validated' = [validated EXCEPT ![w] = "none"]
  /\ UNCHANGED << session, variant, choice, tab, CONF, enabled, dialog, result_radio,
                  result_file, threads, queue, logins, callAfter, radio, rr >>

\* The user picks a notebook page of the RadioReference dialog.
SelectTab(i) ==
  /\ modal
  /\ variant = "RadioReference"
  /\ tab # i
  /\ tab' = i
  /\ UNCHANGED << session, variant, text, bg, focus, validated, choice, CONF, enabled, dialog,
                  result_radio, result_file, threads, queue, logins, callAfter,
                  radio, rr, inputs >>

\* EVT_CHOICE on the RepeaterBook country: _state_selected.
SelectCountry(c) ==
  /\ modal
  /\ inputs < MaxInputs
  /\ inputs' = inputs + 1
  /\ variant = "Repeaterbook"
  /\ InSeq(c, choice["_country"].items)
  /\ choice' = _state_selected([choice EXCEPT !["_country"].sel = c], CONF)
  /\ UNCHANGED << session, variant, text, bg, focus, validated, tab, CONF, enabled, dialog,
                  result_radio, result_file, threads, queue, logins, callAfter,
                  radio, rr >>

\* The user picks a state (RepeaterBook, MyGMRS): no handler is bound.
SelectState(st) ==
  /\ modal
  /\ inputs < MaxInputs
  /\ inputs' = inputs + 1
  /\ variant \in {"Repeaterbook", "MyGMRS"}
  /\ InSeq(st, choice["_state"].items)
  /\ choice' = [choice EXCEPT !["_state"].sel = st]
  /\ UNCHANGED << session, variant, text, bg, focus, validated, tab, CONF, enabled, dialog,
                  result_radio, result_file, threads, queue, logins, callAfter,
                  radio, rr >>

\* EVT_CHOICE on _provchoice: selected_province.
SelectProvince(p) ==
  /\ modal
  /\ inputs < MaxInputs
  /\ inputs' = inputs + 1
  /\ variant = "RadioReference" /\ tab = 1
  /\ InSeq(p, choice["_provchoice"].items)
  /\ SetSelectors(_selected_province(
        [Selectors EXCEPT !.choice["_provchoice"].sel = p], p))
  /\ UNCHANGED << session, variant, text, bg, focus, validated, tab, dialog, result_radio,
                  result_file, threads, queue, logins, callAfter, radio >>

\* EVT_CHOICE on _countychoice: selected_county.
SelectCounty(c) ==
  /\ modal
  /\ inputs < MaxInputs
  /\ inputs' = inputs + 1
  /\ variant = "RadioReference" /\ tab = 1
  /\ InSeq(c, choice["_countychoice"].items)
  /\ SetSelectors(_selected_county(
        [Selectors EXCEPT !.choice["_countychoice"].sel = c], c))
  /\ UNCHANGED << session, variant, text, bg, focus, validated, tab, dialog, result_radio,
                  result_file, threads, queue, logins, callAfter, radio >>

\* Threads the dialog has started so far.
Started == Cardinality({t \in 1..MaxThreads : threads[t].pc # "unstarted"}) + logins.started

\* The lowest QueryThread not yet created.
FreeThread == CHOOSE t \in 1..MaxThreads :
                /\ threads[t].pc = "unstarted"
                /\ \A u \in 1..MaxThreads : threads[u].pc = "unstarted" => t <= u

\* QuerySourceDialog._button for the OK button.
Confirm ==
  /\ modal
  /\ enabled["ok"]
  /\ Started < MaxThreads
  /\ LET v == _call_validations(variant, "dialog")
     IN /\ bg' = v.bg
        /\ focus' = v.focus
        /\ validated' = v.ret
        /\ IF ~v.ok
           THEN UNCHANGED << enabled, CONF, result_radio, threads, session >>
           ELSE LET q == do_query(variant)
                IN /\ enabled' = [enabled EXCEPT ![FindWindowById(variant, ID_OK)] = FALSE]
                   /\ session' = IF q.raised THEN session
                                 ELSE Submitted(session, variant, choice)
                   /\ CONF' = q.CONF
                   /\ result_radio' = q.result_radio
                   /\ threads' = IF q.raised THEN threads
                                 ELSE [threads EXCEPT ![FreeThread] =
                                         [@ EXCEPT !.pc = "started",
                                                   !.atSubmit = get_params(variant,
                                                      text, choice, q.CONF, tab, rr)]]
  /\ UNCHANGED << variant, text, choice, tab, dialog, result_file, queue, logins,
                  callAfter, radio, rr, inputs >>

\* QuerySourceDialog._button for the Cancel button.
Cancel ==
  /\ modal
  /\ SetDialog(EndModal(Dialog, ID_CANCEL))
  /\ UNCHANGED << session, variant, widgets, CONF, result_radio, result_file, threads,
                  queue, logins, callAfter, radio, rr, inputs >>

\* EVT_QUERY_THREAD: _got_status on the oldest posted event.
GotStatus ==
  /\ queue # <<>>
  /\ \E asserts \in (IF Head(queue).status = None /\ ~modal THEN BOOLEAN ELSE {FALSE}) :
       SetDialog(_got_status(Dialog, Head(queue), asserts))
  /\ queue' = Tail(queue)
  /\ UNCHANGED << session, variant, widgets, CONF, result_radio, result_file, threads,
                  logins, callAfter, radio, rr, inputs >>

\* RRQueryDialog._populateca: the "Log In" button on the Canada page.
LoginPress ==
  /\ modal
  /\ variant = "RadioReference" /\ tab = 1
  /\ enabled["login"]
  /\ Started < MaxThreads
  /\ queue' = Append(queue, status("Attempting login...", 0, 0))
  /\ logins' = [logins EXCEPT !.started = @ + 1, !.running = @ + 1]
  /\ UNCHANGED << session, variant, widgets, CONF, enabled, dialog, result_radio,
                  result_file, threads, callAfter, radio, rr, inputs >>

\* wx.CallAfter(self.populateprov) is run.
PopulateProv ==
  /\ callAfter > 0
  /\ callAfter' = callAfter - 1
  /\ SetSelectors(populateprov(Selectors))
  /\ UNCHANGED << session, variant, text, bg, focus, validated, tab, dialog, result_radio,
                  result_file, threads, queue, logins, radio, inputs >>

(***************************************************************************)
(* The login thread (radioreference.RadioReferenceCAData) calls cb.        *)
(***************************************************************************)
LoginSucceeds(tbl) ==
  /\ logins.running > 0
  /\ logins' = [logins EXCEPT !.running = @ - 1, !.succeeded = @ + 1]
  /\ CA_PROVINCES' = tbl.provinces
  /\ CA_COUNTIES' = tbl.counties
  /\ queue' = Append(queue, status("Logged in", 0, 0))
  /\ callAfter' = callAfter + 1
  /\ UNCHANGED << session, variant, widgets, CONF, enabled, dialog, result_radio,
                  result_file, threads, rr, inputs >>

LoginFails(err) ==
  /\ logins.running > 0
  /\ logins' = [logins EXCEPT !.running = @ - 1]
  /\ queue' = Append(queue, status("Failed: " \o err, 0, 0))
  /\ UNCHANGED << session, variant, widgets, CONF, enabled, dialog, result_radio,
                  result_file, threads, callAfter, radio, rr, inputs >>

(***************************************************************************)
(* QueryThread t.  pc: "unstarted", "started" (start() called), "fetching" *)
(* (inside do_fetch, which holds params), "done" (run() has returned),     *)
(* "escaped" (run() was left by an exception).  atSubmit is what           *)
(* get_params() gave when the confirm press was handled.  nsent, nterm and *)
(* nend count the events the thread has posted: all of them, those with    *)
(* percent 100, those with status None.  raised says whether run() went    *)
(* through its except clause.                                              *)
(***************************************************************************)
Post(th, ev) ==
  [th EXCEPT !.nsent = @ + 1,
             !.nterm = IF ev.percent = 100 THEN @ + 1 ELSE @,
             !.nend = IF ev.status = None THEN @ + 1 ELSE @]

\* The locals of a run() that is over are gone.
Over(th, pc) == [th EXCEPT !.pc = pc, !.params = [unset |-> TRUE],
                           !.atSubmit = [unset |-> TRUE]]

others == << session, variant, widgets, CONF, enabled, dialog, result_radio, result_file,
             logins, callAfter, radio, rr, inputs >>

\* run() with the exception's text sent as it is, without the 'Failed: ' prefix.
run_except_bare(t, e) == [sent |-> << fail(e, t) >>, pc |-> "done"]

\* run(), `except Exception as e`: the events sent for e, and how run() ends.
run_except(t, e) == [sent |-> << fail("Failed: " \o e, t) >>, pc |-> "done"]

\* An exception e reaches the try statement of run() in thread t.
Except(t, e) ==
  LET h == run_except(t, e)
      th == [threads[t] EXCEPT !.raised = TRUE]
  IN /\ queue' = queue \o h.sent
     /\ threads' = [threads EXCEPT ![t] =
          Over(IF h.sent = <<>> THEN th ELSE Post(th, h.sent[1]), h.pc)]

\* run(): self.query_dialog.get_params() is evaluated, in the thread, and
\* do_fetch is entered with its value.
ThreadRun(t) ==
  /\ threads[t].pc = "started"
  /\ LET g == GetParamsNow
     IN IF g.raised THEN Except(t, g.msg)
        ELSE /\ threads' = [threads EXCEPT ![t].pc = "fetching", ![t].params = g]
             /\ UNCHANGED queue
  /\ UNCHANGED others

\* do_fetch calls status.send_status(text, percent).
SendStatus(t, txt, percent) ==
  /\ threads[t].pc = "fetching"
  /\ threads[t].nsent < MaxEmits
  /\ queue' = Append(queue, status(txt, percent, t))
  /\ threads' = [threads EXCEPT ![t] = Post(@, status(txt, percent, t))]
  /\ UNCHANGED others

\* do_fetch calls status.send_end().
SendEnd(t) ==
  /\ threads[t].pc = "fetching"
  /\ threads[t].nsent < MaxEmits
  /\ queue' = Append(queue, end(t))
  /\ threads' = [threads EXCEPT ![t] = Post(@, end(t))]
  /\ UNCHANGED others

\* do_fetch calls status.send_fail(reason).
SendFail(t, reason) ==
  /\ threads[t].pc = "fetching"
  /\ threads[t].nsent < MaxEmits
  /\ queue' = Append(queue, fail(reason, t))
  /\ threads' = [threads EXCEPT ![t] = Post(@, fail(reason, t))]
  /\ UNCHANGED others

\* do_fetch returns, and run() with it.
FetchReturns(t) ==
  /\ threads[t].pc = "fetching"
  /\ threads' = [threads EXCEPT ![t] = Over(@, "done")]
  /\ UNCHANGED << queue, others >>

\* do_fetch raises an Exception, which run() handles.
FetchRaises(t, msg) ==
  /\ threads[t].pc = "fetching"
  /\ Except(t, msg)
  /\ UNCHANGED others

Next ==
  \/ \E w \in TextCtrls : \E t \in TextsOf(w) : Edit(w, t)
  \/ \E i \in {0, 1} : SelectTab(i)
  \/ \E c \in {COUNTRIES[i] : i \in DOMAIN COUNTRIES} : SelectCountry(c)
  \/ \E i \in DOMAIN choice["_state"].items : SelectState(choice["_state"].items[i])
  \/ \E i \in DOMAIN choice["_provchoice"].items :
       SelectProvince(choice["_provchoice"].items[i])
  \/ \E i \in DOMAIN choice["_countychoice"].items :
       SelectCounty(choice["_countychoice"].items[i])
  \/ Confirm
  \/ Cancel
  \/ GotStatus
  \/ LoginPress
  \/ PopulateProv
  \/ \E tbl \in CATables : LoginSucceeds(tbl)
  \/ \E err \in LoginErrors : LoginFails(err)
  \/ \E t \in 1..MaxThreads : ThreadRun(t)
  \/ \E t \in 1..MaxThreads : \E txt \in ProgressTexts : \E p \in ProgressPercents :
       SendStatus(t, txt, p)
  \/ \E t \in 1..MaxThreads : SendEnd(t)
  \/ \E t \in 1..MaxThreads : \E r \in FailReasons : SendFail(t, r)
  \/ \E t \in 1..MaxThreads : FetchReturns(t)
  \/ \E t \in 1..MaxThreads : \E m \in ExceptionTexts : FetchRaises(t, m)

Spec == Init /\ [][Next]_vars

(***************************************************************************)
(* The validators on their own: a dialog is opened with any of the texts   *)
(* below in its validated controls, and Validate is called on a control.   *)
(***************************************************************************)
NumberTexts == {"", "0", "-0.0001", "45", "90", "-90", "90.0001", "-90.0001",
                "180", "-180", "180.0001", "-180.0001", "7000", "7000.0001",
                "abc", "4.5.6"}

ZipTexts == {"", "12345", "1234", "123456", "1234a", "1234<U+0663>"}

\* What __init__ leaves in the rest of the dialog.
Fresh ==
  /\ bg = {}
  /\ validated = [w \in TextCtrls |-> "none"]
  /\ focus = None
  /\ tab = 0
  /\ enabled = [b \in {"ok", "login"} |-> TRUE]
  /\ gauge = 0
  /\ statusmsg = ""
  /\ modal = TRUE
  /\ returnCode = None
  /\ modalResult = None
  /\ result_radio = IF variant = "RadioReference" THEN "RadioReferenceRadio" ELSE None
  /\ result_file = TempName(variant)
  /\ threads = [t \in 1..MaxThreads |-> NoThread]
  /\ queue = <<>>
  /\ logins = [started |-> 0, running |-> 0, succeeded |-> 0]
  /\ callAfter = 0
  /\ CA_PROVINCES = <<>>
  /\ CA_COUNTIES = <<>>
  /\ rr = NoRR
  /\ inputs = 0
  /\ session = NoSession

InitValidate ==
  /\ \/ /\ variant = "Repeaterbook"
        /\ \E lat, lon, dist \in NumberTexts :
             text = [w \in TextCtrls |->
                       CASE w = "_lat" -> lat [] w = "_lon" -> lon [] w = "_dist" -> dist
                         [] OTHER -> ""]
     \/ /\ variant = "RadioReference"
        /\ \E zip \in ZipTexts :
             text = [w \in TextCtrls |-> IF w = "_uszip" THEN zip ELSE ""]
  /\ CONF = [k \in ConfKeys |->
               IF k = <<"repeaterbook", "country">> THEN "United States" ELSE None]
  /\ choice = BuildChoice(variant, CONF)
  /\ Fresh

\* The validator of control w is asked: Validate(window).
Validate(w) ==
  /\ HasValidator(variant, w)
  /\ LET r == RunValidator(variant, w,
                [ok |-> TRUE, bg |-> bg, focus |-> focus, ret |-> validated])
     IN /\ bg' = r.bg
        /\ focus' = r.focus
        /\ validated' = r.ret
  /\ UNCHANGED << session, variant, text, choice, tab, CONF, enabled, dialog, result_radio,
                  result_file, threads, queue, logins, callAfter, radio, rr, inputs >>

NextValidate == \E w \in TextCtrls : Validate(w)

SpecValidate == InitValidate /\ [][NextValidate]_vars

(***************************************************************************)
(* The dependent selectors on their own: a RepeaterBook or RadioReference  *)
(* dialog opened on any persisted selection, the user picking choices and  *)
(* logging in, no query submitted.                                         *)
(***************************************************************************)
SelectConfs(v) ==
  LET base == [k \in ConfKeys |-> None]
  IN CASE v = "Repeaterbook" ->
            {[base EXCEPT ![<<"repeaterbook", "country">>] = c,
                          ![<<"repeaterbook", "state">>] = st] :
               c \in {"United States", "Canada"}, st \in {None, "Oregon", "Alberta"}}
       [] v = "RadioReference" ->
            {[base EXCEPT ![<<"radioreference", "province">>] = pr,
                          ![<<"radioreference", "county">>] = co] :
               pr \in {None, "1", "2"}, co \in {None, "11", "21", "22"}}

InitSelect ==
  /\ variant \in {"Repeaterbook", "RadioReference"}
  /\ CONF \in SelectConfs(variant)
  /\ text = BuildText(variant, CONF)
  /\ choice = BuildChoice(variant, CONF)
  /\ Fresh

NextSelect ==
  \/ \E i \in {0, 1} : SelectTab(i)
  \/ \E c \in {COUNTRIES[i] : i \in DOMAIN COUNTRIES} : SelectCountry(c)
  \/ \E i \in DOMAIN choice["_state"].items : SelectState(choice["_state"].items[i])
  \/ \E i \in DOMAIN choice["_provchoice"].items :
       SelectProvince(choice["_provchoice"].items[i])
  \/ \E i \in DOMAIN choice["_countychoice"].items :
       SelectCounty(choice["_countychoice"].items[i])
  \/ GotStatus
  \/ LoginPress
  \/ PopulateProv
  \/ \E tbl \in CATables : LoginSucceeds(tbl)
  \/ \E err \in LoginErrors : LoginFails(err)

SpecSelect == InitSelect /\ [][NextSelect]_vars

(***************************************************************************)
(* A session: RepeaterBook and MyGMRS dialogs opened one after another on  *)
(* the same CONF.  Once a dialog has left its modal loop the next one is   *)
(* constructed, and reads what the submits before it have persisted.       *)
(***************************************************************************)
SessionVariants == {"Repeaterbook", "MyGMRS"}

InitSession ==
  /\ variant \in SessionVariants
  /\ CONF = [k \in ConfKeys |->
               IF k = <<"repeaterbook", "country">> THEN "United States" ELSE None]
  /\ text = BuildText(variant, CONF)
  /\ choice = BuildChoice(variant, CONF)
  /\ Fresh

\* __init__ of the next dialog, of class v.
Reopen(v) ==
  /\ ~modal
  /\ session.opened < MaxDialogs
  /\ session' = [session EXCEPT !.opened = @ + 1]
  /\ variant' = v
  /\ text' = BuildText(v, CONF)
  /\ choice' = BuildChoice(v, CONF)
  /\ bg' = {}
  /\ validated' = [w \in TextCtrls |-> "none"]
  /\ focus' = None
  /\ tab' = 0
  /\ enabled' = [b \in {"ok", "login"} |-> TRUE]
  /\ gauge' = 0
  /\ statusmsg' = ""
  /\ modal' = TRUE
  /\ returnCode' = None
  /\ modalResult' = None
  /\ result_radio' = None
  /\ result_file' = TempName(v)
  /\ threads' = [t \in 1..MaxThreads |-> NoThread]
  /\ queue' = <<>>
  /\ inputs' = 0
  /\ UNCHANGED << CONF, logins, callAfter, radio, rr >>

NextSession ==
  \/ \E c \in {COUNTRIES[i] : i \in DOMAIN COUNTRIES} : SelectCountry(c)
  \/ \E i \in DOMAIN choice["_state"].items : SelectState(choice["_state"].items[i])
  \/ Confirm
  \/ Cancel
  \/ GotStatus
  \/ \E t \in 1..MaxThreads : ThreadRun(t)
  \/ \E t \in 1..MaxThreads : SendEnd(t)
  \/ \E t \in 1..MaxThreads : \E r \in FailReasons : SendFail(t, r)
  \/ \E v \in SessionVariants : Reopen(v)

SpecSession == InitSession /\ [][NextSession]_vars

(***************************************************************************)
(* Properties.                                                             *)
(***************************************************************************)
QueryThreads == 1..MaxThreads

\* A QueryThread is live from start() until run() is over.
Live(t) == threads[t].pc \in {"started", "fetching"}

\* This step starts a QueryThread.
StartsThread == \E t \in QueryThreads : threads[t].pc = "unstarted" /\ threads'[t].pc # "unstarted"

\* This step is _got_status handling the oldest posted event.
Consumes == queue # <<>> /\ queue' = Tail(queue)

Terminal(ev) == ev.percent = 100

\* The dialog has handled an event with percent 100 that thread t posted.
ConsumedTerminal(t) ==
  threads[t].nterm > Cardinality({i \in DOMAIN queue : queue[i].src = t /\ Terminal(queue[i])})

\* Some validator of the dialog rejects what its control holds.
SomeFieldInvalid ==
  \E w \in TextCtrls : HasValidator(variant, w) /\ Validator(w, text[w]) \in {"bad", "fail"}

\* C1: at most one QueryThread of the dialog is live (started, run() not yet
\* returned) in every reachable state.
C1_AtMostOneLiveThread == Cardinality({t \in QueryThreads : Live(t)}) <= 1

\* C2: the parameters do_fetch was given equal what get_params() gave when the
\* confirm press was accepted, whatever the user did to the fields since.
C2_ParamsAreSubmitSnapshot ==
  \A t \in QueryThreads : threads[t].pc = "fetching" => threads[t].params = threads[t].atSubmit

\* C3: no step starts a QueryThread while some field's validator fails on the
\* field's content, at any depth of the window tree.
C3_InvalidFieldAbortsSubmit == [][SomeFieldInvalid => ~StartsThread]_vars

\* C4: a QueryThread whose run() is over has posted exactly one terminal event
\* (percent = 100).
C4_ExactlyOneTerminalEvent ==
  \A t \in QueryThreads : threads[t].pc \in {"done", "escaped"} => threads[t].nterm = 1

\* C5: an exception raised in run() (by get_params or by do_fetch) is caught
\* there: the step posts exactly one event, with status 'Failed: <message>' and
\* percent 100, run() returns, and no run() is ever left by an exception.
C5_ExceptionBecomesFailure ==
  /\ [][\A t \in QueryThreads :
          (~threads[t].raised /\ threads'[t].raised) =>
             /\ threads'[t].pc = "done"
             /\ Len(queue') = Len(queue) + 1
             /\ SubSeq(queue', 1, Len(queue)) = queue
             /\ LET ev == queue'[Len(queue')]
                    msgs == IF threads[t].pc = "started" THEN {GetParamsNow.msg}
                            ELSE ExceptionTexts
                IN /\ \E m \in msgs : ev.status = "Failed: " \o m
                   /\ ev.percent = 100
                   /\ ev.src = t]_vars
  /\ [](\A t \in QueryThreads : threads[t].pc # "escaped")

C5_Witness ==
  \E t \in QueryThreads :
    threads[t].raised /\ threads[t].pc = "done" /\ threads[t].nterm = 1

\* C6: EndModal(wx.ID_OK) happens when, and only when, the dialog handles an
\* event with status None, which only a QueryThread posts; an accepted dialog
\* has a non-empty result_file and a QueryThread that has sent the success event.
C6_AcceptedIffSuccessEvent ==
  /\ [](returnCode = ID_OK =>
          /\ result_file # ""
          /\ \E t \in QueryThreads : threads[t].nend > 0)
  /\ [][Consumes =>
          IF Head(queue).status = None
          THEN /\ Head(queue).src \in QueryThreads
               /\ returnCode' = ID_OK
               /\ ~modal'
               /\ modal => modalResult' = ID_OK
          ELSE /\ returnCode' = returnCode
               /\ modal' = modal
               /\ modalResult' = modalResult]_vars
  /\ [][(returnCode' = ID_OK /\ returnCode # ID_OK) \/
        (modalResult' = ID_OK /\ modalResult # ID_OK) =>
          Consumes /\ Head(queue).status = None]_vars

C6_Witness ==
  /\ ~modal /\ modalResult = ID_OK /\ returnCode = ID_OK /\ gauge = 100
  /\ \E t \in QueryThreads : threads[t].nend = 1

\* C7: handling a terminal-failure event (status a reason, percent 100) puts
\* exactly that reason in the status line, leaves the OK button enabled and
\* does not end or otherwise change the modal state of the dialog.
C7_FailureRearmsConfirm ==
  [][Consumes /\ Head(queue).status # None /\ Terminal(Head(queue)) =>
       /\ statusmsg' = Head(queue).status
       /\ enabled'["ok"]
       /\ modal' = modal
       /\ modalResult' = modalResult
       /\ returnCode' = returnCode]_vars

\* A failure was shown in a dialog that disables its OK button, and a further
\* submit has started a new QueryThread.
C7_Witness ==
  /\ variant # "RadioReference"
  /\ modal
  /\ statusmsg \in FailReasons \cup {"Failed: " \o m : m \in ExceptionTexts}
  /\ \E t, u \in QueryThreads :
       /\ threads[t].pc = "done" /\ threads[t].nterm = 1 /\ ConsumedTerminal(t)
       /\ threads[u].pc = "started"

\* C8: Cancel ends the dialog with the cancel code and leaves the QueryThreads
\* alone, and an event posted after that changes nothing of the dialog when
\* it is handled.
C8_OrphanEventsIgnored ==
  [][/\ (modal /\ modalResult' = ID_CANCEL) =>
          ~modal' /\ returnCode' = ID_CANCEL /\ threads' = threads
     /\ (Consumes /\ modalResult = ID_CANCEL /\ Head(queue).orphan) =>
          /\ returnCode' = returnCode
          /\ gauge' = gauge
          /\ statusmsg' = statusmsg
          /\ enabled' = enabled]_vars

\* C9: once the dialog has handled a terminal event of a QueryThread, handling
\* a later event of the same thread changes nothing of the dialog.
C9_NothingAfterTerminal ==
  [][(Consumes /\ Head(queue).src \in QueryThreads /\ ConsumedTerminal(Head(queue).src)) =>
       /\ gauge' = gauge
       /\ statusmsg' = statusmsg
       /\ enabled' = enabled
       /\ modal' = modal
       /\ returnCode' = returnCode
       /\ modalResult' = modalResult]_vars

\* C10: a step leaves the OK button disabled if and only if it has started a
\* QueryThread: the confirm handler is the only one to do either.
C10_DisabledIffThreadStarted ==
  [][/\ StartsThread => ~enabled'["ok"]
     /\ (enabled["ok"] /\ ~enabled'["ok"]) => StartsThread]_vars

\* The inclusive range a numeric field is to accept.
RangeOf(w) ==
  CASE w = "_lat" -> [min |-> -90, max |-> 90]
    [] w = "_lon" -> [min |-> -180, max |-> 180]
    [] w = "_dist" -> [min |-> 0, max |-> 7000]

\* C11: a Latitude, Longitude or Distance validator that has run returned True
\* exactly when the text is empty or parses as a number within [MIN, MAX], the
\* bounds included: 90, -90, 7000 and 0 pass, 90.0001, -90.0001, 7000.0001 and
\* -0.0001 do not.
C11_NumericValidatorsInclusive ==
  \A w \in {"_lat", "_lon", "_dist"} :
    (HasValidator(variant, w) /\ validated[w] # "none") =>
      /\ validated[w] = "passed" <=>
            \/ text[w] = ""
            \/ /\ ParseFloat(text[w]).ok
               /\ ParseFloat(text[w]).v >= RangeOf(w).min * Scale
               /\ ParseFloat(text[w]).v <= RangeOf(w).max * Scale
      /\ (w = "_lat" /\ text[w] \in {"90", "-90"}) => validated[w] = "passed"
      /\ (w = "_lat" /\ text[w] \in {"90.0001", "-90.0001"}) => validated[w] = "failed"
      /\ (w = "_lon" /\ text[w] \in {"180", "-180"}) => validated[w] = "passed"
      /\ (w = "_lon" /\ text[w] \in {"180.0001", "-180.0001"}) => validated[w] = "failed"
      /\ (w = "_dist" /\ text[w] \in {"7000", "0"}) => validated[w] = "passed"
      /\ (w = "_dist" /\ text[w] \in {"7000.0001", "-0.0001"}) => validated[w] = "failed"
      /\ text[w] \in {"abc", "4.5.6"} => validated[w] = "failed"

\* All three validators have run: on a lower bound, on the empty text, and on
\* a value just above an upper bound.
C11_Witness ==
  /\ text["_lat"] = "-90" /\ validated["_lat"] = "passed"
  /\ text["_lon"] = "" /\ validated["_lon"] = "passed"
  /\ text["_dist"] = "7000.0001" /\ validated["_dist"] = "failed"

\* C12: a ZipValidator that has run returned True exactly when the text is
\* five characters long and each of them is one of '0'..'9'.
C12_ZipIsFiveAsciiDigits ==
  (HasValidator(variant, "_uszip") /\ validated["_uszip"] # "none") =>
    (validated["_uszip"] = "passed" <=>
       /\ Len(Chars(text["_uszip"])) = 5
       /\ \A i \in DOMAIN Chars(text["_uszip"]) : Chars(text["_uszip"])[i] \in Digits)

\* The k-th smallest member of a set of indices.
Kth(idx, k) == CHOOSE i \in idx : Cardinality({j \in idx : j <= i}) = k

\* items holds the counties of exactly the rows of tbl whose province is P, in
\* the order of the table.
IsRowsOf(items, tbl, P) ==
  LET idx == {i \in DOMAIN tbl : tbl[i].prov = P}
  IN /\ Len(items) = Cardinality(idx)
     /\ \A k \in DOMAIN items : items[k] = tbl[Kth(idx, k)].county

\* C13: a step that changes the selected country leaves in the state list
\* exactly STATES of that country, and a step that changes the selected
\* province to P leaves in the county list exactly the CA_COUNTIES rows of P,
\* in table order.
C13_ChildListIsRowsOfParent ==
  [][/\ (variant = "Repeaterbook"
         /\ choice'["_country"].sel # choice["_country"].sel) =>
          choice'["_state"].items = STATES(choice'["_country"].sel)
     /\ (variant = "RadioReference"
         /\ choice'["_provchoice"].sel # choice["_provchoice"].sel
         /\ choice'["_provchoice"].sel # "") =>
          IsRowsOf(choice'["_countychoice"].items, CA_COUNTIES',
                   choice'["_provchoice"].sel)]_vars

\* The user has moved the province from BC, with two counties, to AB, with one.
C13_Witness ==
  /\ variant = "RadioReference"
  /\ inputs > 0
  /\ Len(CA_COUNTIES) = 3
  /\ choice["_provchoice"].sel = "AB"
  /\ Len(choice["_countychoice"].items) = 1
  /\ CONF[<<"radioreference", "province">>] = "1"

\* The default child among items, given the child persisted before.
DefaultOf(items, prev) == IF InSeq(prev, items) THEN prev ELSE items[1]

\* The name of the county whose identifier is persisted in conf, None if none.
PersistedCounty(conf, tbl) ==
  LET hits == {i \in DOMAIN tbl : Str(tbl[i].cid) = conf[<<"radioreference", "county">>]}
  IN IF hits = {} THEN None ELSE tbl[CHOOSE i \in hits : TRUE].county

\* C14: a step that changes the selected parent leaves, in a child list that
\* is not empty, the persisted child selected if it is in the list and the
\* first entry otherwise; in the RadioReference dialog the county identifier
\* for the query is that of the same county.
C14_DefaultChildPersistedOrFirst ==
  [][/\ (variant = "Repeaterbook"
         /\ choice'["_country"].sel # choice["_country"].sel
         /\ choice'["_state"].items # <<>>) =>
          choice'["_state"].sel =
            DefaultOf(choice'["_state"].items, CONF[<<"repeaterbook", "state">>])
     /\ (variant = "RadioReference"
         /\ choice'["_provchoice"].sel # choice["_provchoice"].sel
         /\ choice'["_provchoice"].sel # ""
         /\ choice'["_countychoice"].items # <<>>) =>
          LET want == DefaultOf(choice'["_countychoice"].items,
                                PersistedCounty(CONF, CA_COUNTIES'))
          IN /\ choice'["_countychoice"].sel = want
             /\ rr'.has_county_id
             /\ \E i \in DOMAIN CA_COUNTIES' :
                  /\ CA_COUNTIES'[i].county = want
                  /\ CA_COUNTIES'[i].cid = rr'._ca_county_id]_vars

\* In this step a validator has run and returned False.
ValidationFails == \E w \in TextCtrls : validated'[w] = "failed" /\ validated[w] # "failed"

\* C15: a step in which a validator of the dialog returns False changes
\* neither the enabled state of the buttons, nor CONF, nor result_radio, and
\* starts no QueryThread.
C15_FailedValidationChangesNothing ==
  [][ValidationFails =>
       /\ enabled' = enabled
       /\ CONF' = CONF
       /\ result_radio' = result_radio
       /\ threads' = threads]_vars

\* C16: a control with a validator is pink exactly when its validator has
\* returned False on the text it holds now, and the step in which a validator
\* returns False moves the focus to its control.
C16_MarkIffLastValidationFailed ==
  /\ [](\A w \in TextCtrls :
          HasValidator(variant, w) => (w \in bg <=> validated[w] = "failed"))
  /\ [][\A w \in TextCtrls :
          (validated'[w] = "failed" /\ validated[w] # "failed") => focus' = w]_vars

\* No login of this dialog has succeeded yet.
NotLoggedIn == variant = "RadioReference" /\ logins.succeeded = 0

\* C17: until a login has succeeded the province and county lists hold the
\* placeholder only, and no step changes the persisted province or county or
\* the county identifier for the query.
C17_SelectorsInertBeforeLogin ==
  /\ [](NotLoggedIn =>
          /\ choice["_provchoice"].items = <<"Log in First">>
          /\ choice["_countychoice"].items = <<"Log in First">>)
  /\ [][(NotLoggedIn /\ logins'.succeeded = 0) =>
          /\ CONF'[<<"radioreference", "province">>] = CONF[<<"radioreference", "province">>]
          /\ CONF'[<<"radioreference", "county">>] = CONF[<<"radioreference", "county">>]
          /\ rr'.has_county_id = rr.has_county_id
          /\ rr'._ca_county_id = rr._ca_county_id]_vars

\* C18: a selector handler (populateprov, selected_province) that is left by
\* an exception had provinces and, for the province it was about, county
\* rows to work on: it does not raise on an empty relation.
C18_NoFaultOnEmptyRelation ==
  [][((rr' # rr \/ choice' # choice) /\ rr'.raised) =>
       /\ CA_PROVINCES' # <<>>
       /\ choice'["_countychoice"].items # <<>>]_vars

\* This step is the login callback reporting an exception.
LoginFailed == logins'.running < logins.running /\ logins'.succeeded = logins.succeeded

\* C19: handling an event of the login callback neither ends the dialog nor
\* changes the OK button; when a login fails the login button is enabled;
\* the province list changes only once a login has succeeded.
C19_LoginNeverEndsDialog ==
  /\ [][(Consumes /\ Head(queue).src = 0) =>
          /\ modal' = modal
          /\ returnCode' = returnCode
          /\ modalResult' = modalResult
          /\ enabled'["ok"] = enabled["ok"]]_vars
  /\ [][LoginFailed => (enabled'["login"] /\ modal' = modal)]_vars
  /\ [][choice'["_provchoice"].items # choice["_provchoice"].items =>
          logins.succeeded > 0]_vars

\* C20: once populateprov has run and a province is selected, the county
\* identifier for the query, which is also the persisted one, is that of a
\* CA_COUNTIES row of the selected province.
C20_CountyIdBelongsToProvince ==
  (/\ variant = "RadioReference"
   /\ logins.succeeded > 0 /\ callAfter = 0
   /\ choice["_provchoice"].sel # ""
   /\ rr.has_county_id) =>
    /\ CONF[<<"radioreference", "county">>] = Str(rr._ca_county_id)
    /\ \E i \in DOMAIN CA_COUNTIES :
         /\ CA_COUNTIES[i].cid = rr._ca_county_id
         /\ CA_COUNTIES[i].prov = choice["_provchoice"].sel

\* C21: a RepeaterBook or MyGMRS dialog that is opened after a dialog of its
\* own kind has submitted with state S selected has S selected, if S is among
\* its choices, whatever dialogs of the other kind have submitted in between.
C21_StateRoundTrips ==
  [][\A v \in SessionVariants :
       (/\ session'.opened > session.opened
        /\ variant' = v
        /\ session.submitted[v] # None
        /\ InSeq(session.submitted[v], choice'["_state"].items)) =>
         choice'["_state"].sel = session.submitted[v]]_vars

====
